---- MODULE Spec2Model ----
(***************************************************************************)
(* Conway's Game of Life on a bounded, non-wrapping grid (src/life.py)     *)
(* and the console driver that animates it (src/game.py).                  *)
(*                                                                         *)
(* Cell objects live in a heap indexed by object identity; Life.cells is a *)
(* list of lists of identities; the neighbors dict of a Cell holds         *)
(* identities or None.  Life.next_generation is modelled one loop          *)
(* iteration at a time (compute pass, then apply pass).                    *)
(***************************************************************************)
EXTENDS Integers, Sequences, FiniteSets, TLC

(* ---------------------------- bounds ----------------------------------- *)

\* Grids with at most MaxCells cells are explored under every random outcome.
MaxCells == 9

\* Grids with at most MaxPendingCells cells are explored with arbitrary
\* new_state values set from outside next_generation.
MaxPendingCells == 4

\* The count of completed next_generation calls stops growing at MaxCalls
\* (at least half of MaxCells, rounded up, plus one).
MaxCalls == 6

(* ------------------------ values and constants ------------------------- *)

\* Python's None in a neighbors slot (object identities start at 1).
None == 0

\* Default width and height of Life.__init__; this size is explored under
\* the selected random outcomes DefaultPatterns only.
DefaultSize == 5

\* range(n) has no element when n <= 0.
RangeLen(n) == IF n > 0 THEN n ELSE 0

\* range(n) as a set of indices.
Range(n) == 0 .. (n - 1)

\* Insertion order of the neighbors dict built in Cell.__init__.
DirOrder == <<"N", "NW", "W", "SW", "S", "SE", "E", "NE">>

DirNames == {DirOrder[i] : i \in 1 .. Len(DirOrder)}

\* Life.directions with one offset transposed (NW written as [+1, -1]).
directionsTypo ==
    [N  |-> << 0,  1>>, NW |-> << 1, -1>>, W  |-> <<-1,  0>>, SW |-> <<-1, -1>>,
     S  |-> << 0, -1>>, SE |-> << 1, -1>>, E  |-> << 1,  0>>, NE |-> << 1,  1>>]

\* Life.directions: compass point -> [dx, dy].
directions ==
    [N  |-> << 0,  1>>, NW |-> <<-1,  1>>, W  |-> <<-1,  0>>, SW |-> <<-1, -1>>,
     S  |-> << 0, -1>>, SE |-> << 1, -1>>, E  |-> << 1,  0>>, NE |-> << 1,  1>>]

(* --------------------------- Python lists ------------------------------ *)

\* list[i] raises IndexError unless -len <= i < len.
PyInRange(list, i) == i < Len(list) /\ i >= -Len(list)

\* list[i] for an index in range; a negative index counts from the end.
PyItem(list, i) == IF i < 0 THEN list[Len(list) + i + 1] ELSE list[i + 1]

(* ------------------------------ state ---------------------------------- *)

VARIABLES
    width,      \* Life.width (game.py: width)
    height,     \* Life.height (game.py: height)
    cells,      \* Life.cells: list (x) of lists (y) of Cell identities
    heap,       \* Cell objects: identity -> [x, y, state, new_state, neighbors]
    pc,         \* position of the driver / of next_generation
    k,          \* number of loop iterations completed in the current pass
    prev,       \* the state of every cell when next_generation was entered
    screen,     \* the rows last printed by the driver
    calls       \* number of next_generation calls that have returned

vars == <<width, height, cells, heap, pc, k, prev, screen, calls>>

\* The count of returned calls after one more call has returned.
Returned(n) == IF n < MaxCalls THEN n + 1 ELSE n

\* Identities of the Cell objects of a w x h grid, in creation order.
Ids(w, h) == 1 .. (RangeLen(w) * RangeLen(h))

\* Number of iterations of "for y in range(height): for x in range(width)".
NCells == RangeLen(width) * RangeLen(height)

\* The x index of the loops stuck at 0 (self.cells[0][y] for self.cells[x][y]).
LoopXStuck(i) == 0

\* Loop indices of iteration number i (0-based) of the y-outer, x-inner loops.
LoopX(i) == i % width

LoopY(i) == i \div width

(* ------------------------------- Cell ---------------------------------- *)

\* Cell.__init__: a fresh object; new_state is not an attribute yet (<<>>).
Cell(x, y, state) ==
    [x |-> x, y |-> y, state |-> state, new_state |-> <<>>,
     neighbors |-> [d \in DirNames |-> None]]

\* Cell.set_state
set_state(h, id, state) == [h EXCEPT ![id].state = state]

\* Cell.set_neighbor
set_neighbor(h, id, direction, cell) ==
    [h EXCEPT ![id].neighbors[direction] = cell]

\* The generator of count_live_neighbors without its "and x.state" test.
LiveTermNoState(h, c) == IF c # None THEN 1 ELSE 0

\* One term of the sum in count_live_neighbors: 1 for a neighbor that is not
\* None and alive.
LiveTerm(h, c) == IF c # None /\ h[c].state THEN 1 ELSE 0

RECURSIVE SumLive(_, _, _)
\* sum(1 for x in self.neighbors.values() if ...) over the first i values.
SumLive(h, id, i) ==
    IF i = 0 THEN 0
    ELSE SumLive(h, id, i - 1) + LiveTerm(h, h[id].neighbors[DirOrder[i]])

\* Cell.count_live_neighbors
count_live_neighbors(h, id) == SumLive(h, id, Len(DirOrder))

\* set_new_state skipping the assignment when the value equals state.
set_new_state_only_change(h, id, v) ==
    IF v # h[id].state THEN [h EXCEPT ![id].new_state = <<v>>] ELSE h

\* set_new_state assigning to self.state instead of self.new_state.
set_new_state_wrong_attribute(h, id, v) == [h EXCEPT ![id].state = v]

\* set_new_state that also overwrites state (an in-place update).
set_new_state_inplace(h, id, v) ==
    [h EXCEPT ![id].new_state = <<v>>, ![id].state = v]

\* Cell.set_new_state
set_new_state(h, id, v) == [h EXCEPT ![id].new_state = <<v>>]

\* Cell.apply_new_state raises AttributeError when new_state was never set.
HasNewState(h, id) == h[id].new_state # <<>>

\* apply_new_state without its assignment.
apply_new_state_noop(h, id) == h

\* Cell.apply_new_state
apply_new_state(h, id) == [h EXCEPT ![id].state = h[id].new_state[1]]

(* ------------------------------- Life ---------------------------------- *)

\* Life.create_cells: self.cells, column x holding the cells (x, 0..height-1).
create_cells_list(w, hgt) ==
    [i \in 1 .. RangeLen(w) |->
        [j \in 1 .. RangeLen(hgt) |-> (i - 1) * RangeLen(hgt) + j]]

\* Life.create_cells: the Cell(x, y, False) objects it allocates.
create_cells_heap(w, hgt) ==
    [id \in Ids(w, hgt) |->
        Cell((id - 1) \div RangeLen(hgt), (id - 1) % RangeLen(hgt), FALSE)]

\* The identity stored at self.cells[x][y], for loop indices in range.
CellAt(cs, x, y) == PyItem(PyItem(cs, x), y)

\* The loop indices (x, y) at which the loops of Life reach the object id.
IndexOf(cs, w, hgt, id) ==
    CHOOSE p \in Range(w) \X Range(hgt) : CellAt(cs, p[1], p[2]) = id

\* Life.randomize_cells: every cell gets its own draw of random.randint(0, 1).
randomize_cells(cs, h, w, hgt, draw) ==
    [id \in DOMAIN h |->
        LET p == IndexOf(cs, w, hgt, id)
        IN  set_state(h, CellAt(cs, p[1], p[2]), draw[id])[id]]

\* The body of the try block without the test for negative indices:
\* self.cells[x+dx][y+dy] then wraps around for index -1.
TryNeighborNoNegativeTest(cs, h, x, y, direction) ==
    LET dx == directions[direction][1]
        dy == directions[direction][2]
    IN  IF ~PyInRange(cs, x + dx) THEN h
        ELSE IF ~PyInRange(PyItem(cs, x + dx), y + dy) THEN h
        ELSE set_neighbor(h, CellAt(cs, x, y), direction,
                          PyItem(PyItem(cs, x + dx), y + dy))

\* The body of the try block testing only x+dx for a negative index.
TryNeighborOnlyXTest(cs, h, x, y, direction) ==
    LET dx == directions[direction][1]
        dy == directions[direction][2]
    IN  IF x + dx < 0 THEN h
        ELSE IF ~PyInRange(cs, x + dx) THEN h
        ELSE IF ~PyInRange(PyItem(cs, x + dx), y + dy) THEN h
        ELSE set_neighbor(h, CellAt(cs, x, y), direction,
                          PyItem(PyItem(cs, x + dx), y + dy))

\* Life.set_neighbors, one (x, y, direction): the try/except IndexError.
\* A negative candidate raises IndexError explicitly, a candidate past the
\* end raises it from the list lookup; the handler leaves the slot as it is.
TryNeighbor(cs, h, x, y, direction) ==
    LET dx == directions[direction][1]
        dy == directions[direction][2]
    IN  IF x + dx < 0 \/ y + dy < 0 THEN h
        ELSE IF ~PyInRange(cs, x + dx) THEN h
        ELSE IF ~PyInRange(PyItem(cs, x + dx), y + dy) THEN h
        ELSE set_neighbor(h, CellAt(cs, x, y), direction,
                          PyItem(PyItem(cs, x + dx), y + dy))

\* Life.set_neighbors: every (x, y, direction) writes at most its own slot,
\* so the loops compose slot by slot.
set_neighbors(cs, h, w, hgt) ==
    [id \in DOMAIN h |->
        [h[id] EXCEPT !.neighbors =
            [d \in DirNames |->
                LET p == IndexOf(cs, w, hgt, id)
                IN  TryNeighbor(cs, h, p[1], p[2], d)[id].neighbors[d]]]]

\* Conway's rule with the loneliness test written n < 1.
RuleLonelyBelow1(alive, n) ==
    IF alive
    THEN (IF n < 1 \/ n > 3 THEN FALSE ELSE alive)
    ELSE (IF n = 3 THEN TRUE ELSE alive)

\* Conway's rule with the loneliness test written n <= 2.
RuleLonelyAtMost2(alive, n) ==
    IF alive
    THEN (IF n <= 2 \/ n > 3 THEN FALSE ELSE alive)
    ELSE (IF n = 3 THEN TRUE ELSE alive)

\* Conway's rule with the birth test written n <= 3.
RuleBirthAtMost3(alive, n) ==
    IF alive
    THEN (IF n < 2 \/ n > 3 THEN FALSE ELSE alive)
    ELSE (IF n <= 3 THEN TRUE ELSE alive)

\* Conway's rule with the overcrowding test written n >= 3.
RuleDeathFrom3(alive, n) ==
    IF alive
    THEN (IF n < 2 \/ n >= 3 THEN FALSE ELSE alive)
    ELSE (IF n = 3 THEN TRUE ELSE alive)

\* Life.next_generation: the value handed to set_new_state for a cell with
\* state alive and n live neighbors.
Rule(alive, n) ==
    IF alive
    THEN (IF n < 2 \/ n > 3 THEN FALSE ELSE alive)
    ELSE (IF n = 3 THEN TRUE ELSE alive)

(* ------------------------- inputs of the model ------------------------- *)

\* The selected outcomes of randomize_cells on the default-size grid, each
\* given as its set of live coordinates: the three-cell line (2,1),(2,2),(2,3),
\* a 2x2 block, a glider, the empty grid and the full grid.
DefaultPatterns ==
    { {<<2, 1>>, <<2, 2>>, <<2, 3>>},
      {<<1, 1>>, <<1, 2>>, <<2, 1>>, <<2, 2>>},
      {<<1, 0>>, <<2, 1>>, <<0, 2>>, <<1, 2>>, <<2, 2>>},
      {},
      Range(DefaultSize) \X Range(DefaultSize) }

\* The widths and heights handed to Life(width, height), non-positive ones
\* included.
Dims ==
    {d \in (-1 .. MaxCells) \X (-1 .. MaxCells) :
        RangeLen(d[1]) * RangeLen(d[2]) <= MaxCells}
    \cup {<<DefaultSize, DefaultSize>>}

\* The outcomes of the random.randint(0, 1) draws of randomize_cells, one
\* draw per cell.
Draws(cs, w, hgt) ==
    IF RangeLen(w) * RangeLen(hgt) <= MaxCells
    THEN [Ids(w, hgt) -> BOOLEAN]
    ELSE {[id \in Ids(w, hgt) |-> IndexOf(cs, w, hgt, id) \in live] :
            live \in DefaultPatterns}

(* ------------------------------ actions -------------------------------- *)

\* game.py sets width and height; nothing is constructed yet.
Init ==
    /\ \E d \in Dims : width = d[1] /\ height = d[2]
    /\ cells = <<>>
    /\ heap = <<>>
    /\ pc = "start"
    /\ k = 0
    /\ prev = <<>>
    /\ screen = <<>>
    /\ calls = 0

\* game = life.Life(width, height): create_cells, randomize_cells,
\* set_neighbors.
Construct ==
    /\ pc = "start"
    /\ LET cs == create_cells_list(width, height)
           h0 == create_cells_heap(width, height)
       IN  \E draw \in Draws(cs, width, height) :
             /\ cells' = cs
             /\ heap' = set_neighbors(cs,
                            randomize_cells(cs, h0, width, height, draw),
                            width, height)
    /\ pc' = "loop"
    /\ UNCHANGED <<width, height, k, prev, screen, calls>>

\* while True: game.next_generation() is entered; both passes are empty
\* loops when range(height) or range(width) is empty.
NextGenerationCall ==
    /\ pc = "loop"
    /\ prev' = [id \in DOMAIN heap |-> heap[id].state]
    /\ k' = 0
    /\ pc' = IF NCells = 0 THEN "render" ELSE "compute"
    /\ calls' = IF NCells = 0 THEN Returned(calls) ELSE calls
    /\ UNCHANGED <<width, height, cells, heap, screen>>

\* One iteration of the first pair of loops of next_generation.
ComputeStep ==
    /\ pc = "compute"
    /\ k < NCells
    /\ LET c == CellAt(cells, LoopX(k), LoopY(k))
           n_live_neighbors == count_live_neighbors(heap, c)
       IN  heap' = set_new_state(heap, c, Rule(heap[c].state, n_live_neighbors))
    /\ IF k + 1 = NCells
       THEN pc' = "apply" /\ k' = 0
       ELSE pc' = pc /\ k' = k + 1
    /\ UNCHANGED <<width, height, cells, prev, screen, calls>>

\* One iteration of the second pair of loops of next_generation; the call
\* returns after the last one.  An apply_new_state on a cell without a
\* new_state attribute raises AttributeError, which nothing catches.
ApplyStep ==
    /\ pc = "apply"
    /\ k < NCells
    /\ LET c == CellAt(cells, LoopX(k), LoopY(k))
       IN  IF HasNewState(heap, c)
           THEN /\ heap' = apply_new_state(heap, c)
                /\ IF k + 1 = NCells
                   THEN pc' = "render" /\ k' = 0
                        /\ calls' = Returned(calls)
                   ELSE pc' = pc /\ k' = k + 1 /\ calls' = calls
           ELSE /\ pc' = "error"
                /\ UNCHANGED <<heap, k, calls>>
    /\ UNCHANGED <<width, height, cells, prev, screen>>

\* The driver prints one row per x, one character per y.
Render ==
    /\ pc = "render"
    /\ screen' = [i \in 1 .. RangeLen(width) |->
                    [j \in 1 .. RangeLen(height) |->
                        IF heap[CellAt(cells, i - 1, j - 1)].state
                        THEN "o" ELSE " "]]
    /\ pc' = "sleep"
    /\ UNCHANGED <<width, height, cells, heap, k, prev, calls>>

\* The loop body without its call of next_generation: after the pause the
\* driver prints again.
SleepNoAdvance ==
    /\ pc = "sleep"
    /\ pc' = "render"
    /\ UNCHANGED <<width, height, cells, heap, k, prev, screen, calls>>

\* time.sleep(0.1), clear the screen, back to the top of the loop.
Sleep ==
    /\ pc = "sleep"
    /\ pc' = "loop"
    /\ UNCHANGED <<width, height, cells, heap, k, prev, screen, calls>>

\* The loop without its "except KeyboardInterrupt: pass": the exception
\* propagates out of the driver.
InterruptUncaught ==
    /\ pc \in {"loop", "compute", "apply", "render", "sleep"}
    /\ pc' = "error"
    /\ UNCHANGED <<width, height, cells, heap, k, prev, screen, calls>>

\* KeyboardInterrupt raised anywhere inside the try block ends the driver.
Interrupt ==
    /\ pc \in {"loop", "compute", "apply", "render", "sleep"}
    /\ pc' = "done"
    /\ UNCHANGED <<width, height, cells, heap, k, prev, screen, calls>>

Next ==
    \/ Construct
    \/ NextGenerationCall
    \/ ComputeStep
    \/ ApplyStep
    \/ Render
    \/ Sleep
    \/ Interrupt

Spec == Init /\ [][Next]_vars

\* A caller of the public Cell.set_new_state between two next_generation
\* calls: any cell's new_state can hold any value when a call is entered.
SetNewStateCall ==
    /\ pc = "loop"
    /\ NCells <= MaxPendingCells
    /\ \E id \in DOMAIN heap, v \in BOOLEAN :
         /\ heap[id].new_state # <<v>>
         /\ heap' = set_new_state(heap, id, v)
    /\ UNCHANGED <<width, height, cells, pc, k, prev, screen, calls>>

NextPending ==
    \/ Construct
    \/ NextGenerationCall
    \/ ComputeStep
    \/ ApplyStep
    \/ Render
    \/ Sleep
    \/ Interrupt
    \/ SetNewStateCall

\* The driver with arbitrary new_state values at the entry of each call.
SpecPending == Init /\ [][NextPending]_vars

(* ------------------- vocabulary of the properties ---------------------- *)

\* The grid object exists.
Constructed == pc # "start"

\* All coordinates of the grid.
Coords == Range(width) \X Range(height)

InGrid(x, y) == x \in Range(width) /\ y \in Range(height)

\* The alive value of every cell now.
Now == [id \in DOMAIN heap |-> heap[id].state]

\* The live coordinates of a configuration.
LiveSet(conf) == {p \in Coords : conf[CellAt(cells, p[1], p[2])]}

\* The offsets of the eight compass directions as the specification lists them.
CompassOffset ==
    [N  |-> << 0,  1>>, NE |-> << 1,  1>>, E  |-> << 1,  0>>, SE |-> << 1, -1>>,
     S  |-> << 0, -1>>, SW |-> <<-1, -1>>, W  |-> <<-1,  0>>, NW |-> <<-1,  1>>]

\* The reverse compass direction.
Reverse ==
    [N  |-> "S",  S  |-> "N",  E  |-> "W",  W  |-> "E",
     NE |-> "SW", SW |-> "NE", NW |-> "SE", SE |-> "NW"]

\* Number of live cells of conf among the in-grid coordinates adjacent to (x, y).
AdjacentLive(conf, x, y) ==
    Cardinality({o \in (-1 .. 1) \X (-1 .. 1) :
        /\ o # <<0, 0>>
        /\ InGrid(x + o[1], y + o[2])
        /\ conf[CellAt(cells, x + o[1], y + o[2])]})

\* Conway's rule applied to (x, y) in configuration conf.
Conway(conf, x, y) ==
    LET n == AdjacentLive(conf, x, y)
    IN  IF conf[CellAt(cells, x, y)] THEN n \in {2, 3} ELSE n = 3

\* The assigned neighbor directions of the cell at (x, y).
Assigned(x, y) ==
    {d \in DirNames : heap[CellAt(cells, x, y)].neighbors[d] # None}

OnEdge(x, y) == x \in {0, width - 1} \/ y \in {0, height - 1}

IsCorner(x, y) == x \in {0, width - 1} /\ y \in {0, height - 1}

AllDead == Constructed /\ \A id \in DOMAIN heap : ~heap[id].state

\* conf has exactly the four cells of one 2x2 block alive.
IsBlock(conf) ==
    \E x0 \in 0 .. (width - 2), y0 \in 0 .. (height - 2) :
        LiveSet(conf) = {x0, x0 + 1} \X {y0, y0 + 1}

LineA == {<<2, 1>>, <<2, 2>>, <<2, 3>>}

LineB == {<<1, 2>>, <<2, 2>>, <<3, 2>>}

(* ------------------------------ C1 ------------------------------------- *)

\* C1: when next_generation has returned on a grid with width >= 1 and
\* height >= 1, every cell is alive iff Conway's rule, evaluated on the
\* configuration that held when the call was entered (out-of-grid
\* coordinates counting as dead), makes it alive.
TheoremC1 ==
    (pc = "render" /\ width >= 1 /\ height >= 1) =>
        \A p \in Coords :
            heap[CellAt(cells, p[1], p[2])].state = Conway(prev, p[1], p[2])

\* A 3x3 generation in which one cell was born, one died and one survived.
WitnessC1 ==
    /\ pc = "render" /\ width = 3 /\ height = 3
    /\ \E a, b, c \in DOMAIN heap :
         /\ ~prev[a] /\ heap[a].state
         /\ prev[b] /\ ~heap[b].state
         /\ prev[c] /\ heap[c].state

(* ------------------------------ C2 ------------------------------------- *)

\* C2: after construction, the slot of cell (x, y) in direction d is assigned
\* iff (x+dx, y+dy) lies in the grid, and then holds exactly the cell at
\* (x+dx, y+dy); every other slot is unassigned (no wrapping), and
\* construction has not failed.
TheoremC2 ==
    Constructed =>
        /\ pc # "error"
        /\ \A p \in Coords, d \in DirNames :
             LET x == p[1] + CompassOffset[d][1]
                 y == p[2] + CompassOffset[d][2]
                 slot == heap[CellAt(cells, p[1], p[2])].neighbors[d]
             IN  IF InGrid(x, y)
                 THEN /\ slot # None
                      /\ slot = CellAt(cells, x, y)
                      /\ heap[slot].x = x /\ heap[slot].y = y
                 ELSE slot = None

\* A freshly constructed 3x3 grid: slots past the low and the high border
\* are unassigned, the centre cell has all eight.
WitnessC2 ==
    /\ pc = "loop" /\ prev = <<>> /\ width = 3 /\ height = 3
    /\ heap[CellAt(cells, 0, 0)].neighbors["SW"] = None
    /\ heap[CellAt(cells, 2, 2)].neighbors["NE"] = None
    /\ Assigned(1, 1) = DirNames

(* ------------------------------ C3 ------------------------------------- *)

\* C3: a grid object only ever exists with width > 0 and height > 0
\* (construction with a non-positive dimension is rejected).
ClaimC3 == Constructed => (width > 0 /\ height > 0)

(* ------------------------------ C4 ------------------------------------- *)

\* C4: neighbor edges are symmetric: if A's neighbor in direction d is B,
\* then B's neighbor in the reverse direction of d is A.
TheoremC4 ==
    Constructed =>
        \A a \in DOMAIN heap, d \in DirNames :
            LET b == heap[a].neighbors[d]
            IN  b # None => heap[b].neighbors[Reverse[d]] = a

\* A grid with a diagonal edge, during a later generation.
WitnessC4 ==
    /\ pc = "apply" /\ screen # <<>> /\ width >= 2 /\ height >= 2
    /\ heap[CellAt(cells, 0, 0)].neighbors["NE"] = CellAt(cells, 1, 1)

(* ------------------------------ C5 ------------------------------------- *)

\* C5: with width >= 2 and height >= 2, cell (0,0) has exactly the assigned
\* directions E, N and NE; every non-corner edge cell has exactly 5 assigned
\* directions; every interior cell has exactly 8.
TheoremC5 ==
    (Constructed /\ width >= 2 /\ height >= 2) =>
        /\ Assigned(0, 0) = {"E", "N", "NE"}
        /\ \A p \in Coords :
             /\ (OnEdge(p[1], p[2]) /\ ~IsCorner(p[1], p[2]))
                    => Cardinality(Assigned(p[1], p[2])) = 5
             /\ ~OnEdge(p[1], p[2])
                    => Cardinality(Assigned(p[1], p[2])) = 8

\* A constructed grid that has a corner, non-corner edge cells and an
\* interior cell.
WitnessC5 ==
    /\ Constructed /\ width = 3 /\ height = 3
    /\ ~OnEdge(1, 1) /\ OnEdge(0, 1) /\ ~IsCorner(0, 1) /\ IsCorner(0, 0)
    /\ Cardinality(Assigned(1, 1)) = 8

(* ------------------------------ C6 ------------------------------------- *)

\* C6: once every cell is dead, every cell stays dead, whatever the grid
\* size and however many next_generation calls follow.
TheoremC6 == [][AllDead => AllDead']_vars

\* A second generation of a non-empty all-dead grid has completed.
WitnessC6 ==
    /\ pc = "render" /\ screen # <<>> /\ NCells >= 4
    /\ AllDead /\ LiveSet(prev) = {}

(* ------------------------------ C7 ------------------------------------- *)

\* C7: on the 5x5 grid, a generation entered with exactly the line
\* (2,1),(2,2),(2,3) alive ends with exactly (1,2),(2,2),(3,2) alive, and a
\* generation entered with exactly (1,2),(2,2),(3,2) alive ends with exactly
\* (2,1),(2,2),(2,3) alive: the pattern has period 2.
TheoremC7 ==
    (pc = "render" /\ width = 5 /\ height = 5) =>
        /\ LiveSet(prev) = LineA => LiveSet(Now) = LineB
        /\ LiveSet(prev) = LineB => LiveSet(Now) = LineA

\* The second generation of the line has completed and restored it.
WitnessC7 ==
    /\ pc = "render" /\ width = 5 /\ height = 5
    /\ LiveSet(prev) = LineB /\ LiveSet(Now) = LineA

(* ------------------------------ C8 ------------------------------------- *)

\* C8: a generation entered with exactly one 2x2 block alive leaves every
\* cell with the alive value it had.
TheoremC8 ==
    (pc = "render" /\ IsBlock(prev)) =>
        \A id \in DOMAIN heap : heap[id].state = prev[id]

\* A block in the 3x3 grid, touching the border, after one generation.
WitnessC8 ==
    /\ pc = "render" /\ width = 3 /\ height = 3
    /\ IsBlock(prev) /\ IsBlock(Now)

(* ------------------------------ C9 ------------------------------------- *)

\* C9: no step of next_generation changes width, height, the list of cells,
\* any cell's coordinates or any neighbor slot; exactly width*height cells
\* exist, and the cell stored at index (x, y) has the coordinates (x, y).
ClaimC9 ==
    [][(pc \in {"loop", "compute", "apply"}) =>
        (/\ width' = width /\ height' = height /\ cells' = cells
         /\ DOMAIN heap' = DOMAIN heap
         /\ Cardinality(DOMAIN heap') = width' * height'
         /\ \A p \in Range(width') \X Range(height') :
              /\ heap'[CellAt(cells', p[1], p[2])].x = p[1]
              /\ heap'[CellAt(cells', p[1], p[2])].y = p[2]
         /\ \A id \in DOMAIN heap :
              /\ heap'[id].x = heap[id].x /\ heap'[id].y = heap[id].y
              /\ heap'[id].neighbors = heap[id].neighbors)]_vars

(* ------------------------------ C10 ------------------------------------ *)

\* C10: for every cell, count_live_neighbors returns a number in 0..8 that
\* equals the number of assigned directions whose cell is alive.
TheoremC10 ==
    Constructed =>
        \A id \in DOMAIN heap :
            /\ count_live_neighbors(heap, id) \in 0 .. 8
            /\ count_live_neighbors(heap, id) =
                 Cardinality({d \in DirNames :
                     /\ heap[id].neighbors[d] # None
                     /\ heap[heap[id].neighbors[d]].state})

\* The centre of a 3x3 grid is dead and counts 8; a corner cell, with five
\* unassigned directions and the dead centre among its three neighbors,
\* counts 2.
WitnessC10 ==
    /\ Constructed /\ width = 3 /\ height = 3
    /\ ~heap[CellAt(cells, 1, 1)].state
    /\ count_live_neighbors(heap, CellAt(cells, 1, 1)) = 8
    /\ Cardinality(Assigned(0, 0)) = 3
    /\ count_live_neighbors(heap, CellAt(cells, 0, 0)) = 2


(* ------------------------------ C11 ------------------------------------ *)

\* C11: no next_generation call ever raises: the driver never reaches the
\* error state, the first call (no new_state attribute set before) included.
TheoremC11 == pc # "error"

\* The very first call on a non-empty grid has returned.
WitnessC11 ==
    /\ pc = "render" /\ screen = <<>> /\ NCells >= 4
    /\ \A id \in DOMAIN heap : HasNewState(heap, id)


(* ------------------------------ C12 ------------------------------------ *)

\* The cells the compute pass of the current call has handed to
\* set_new_state so far.
StagedInCall ==
    IF pc = "compute"
    THEN {CellAt(cells, LoopX(i), LoopY(i)) : i \in 0 .. (k - 1)}
    ELSE IF pc = "apply"
    THEN {CellAt(cells, LoopX(i), LoopY(i)) : i \in 0 .. (NCells - 1)}
    ELSE {}

\* C12: whenever apply_new_state is executed for a cell, set_new_state has
\* been executed in the same call for every cell of the grid, and every
\* cell's new_state is present and is the value computed in this call from
\* the configuration at its entry (never a missing or left-over one).
TheoremC12 ==
    [][ApplyStep =>
        (/\ StagedInCall = DOMAIN heap
         /\ \A id \in DOMAIN heap :
              /\ HasNewState(heap, id)
              /\ heap[id].new_state[1] = Conway(prev, heap[id].x, heap[id].y))]_vars

\* A later generation, part of the way through its apply pass, in which a
\* cell's fresh new_state differs from the one left by the previous call.
WitnessC12 ==
    /\ pc = "apply" /\ k >= 1 /\ screen # <<>> /\ width >= 2 /\ height >= 2
    /\ \E id \in DOMAIN heap : heap[id].new_state[1] # prev[id]


(* ------------------------------ C13 ------------------------------------ *)

\* C13: throughout the compute pass every cell's state equals its value at
\* the entry of the call, a compute step leaves every state as it is, and
\* states change only in steps of the apply pass (or at construction).
TheoremC13 ==
    [][(/\ (pc = "compute") => (Now = prev /\ Now' = Now)
        /\ (Now' # Now) => (pc \in {"start", "apply"}))]_vars

\* In the compute pass of the first call, a staged value differs from the
\* state of its cell, which is still the one at entry.
WitnessC13 ==
    /\ pc = "compute" /\ k >= 1 /\ screen = <<>>
    /\ \E id \in StagedInCall :
         /\ HasNewState(heap, id)
         /\ heap[id].new_state[1] # heap[id].state
         /\ heap[id].state = prev[id]


(* ------------------------------ C14 ------------------------------------ *)

\* The rows the driver prints for configuration conf.
FrameOf(conf) ==
    [i \in 1 .. RangeLen(width) |->
        [j \in 1 .. RangeLen(height) |->
            IF conf[CellAt(cells, i - 1, j - 1)] THEN "o" ELSE " "]]

\* C14: every render happens with a next_generation call fully completed
\* (every cell holds the successor of the configuration at the call's entry)
\* and prints exactly that generation; the frame printed before it, if any,
\* shows the configuration at that call's entry, so exactly one call
\* separates consecutive renders; a render is followed by the wait, and the
\* wait by the next call.
TheoremC14 ==
    [][(/\ Render =>
            (/\ \A p \in Coords :
                  heap[CellAt(cells, p[1], p[2])].state = Conway(prev, p[1], p[2])
             /\ screen' = FrameOf(Now)
             /\ screen # <<>> => screen = FrameOf(prev)
             /\ pc' = "sleep")
        /\ (pc = "sleep" /\ pc' # "done") => (pc' = "loop" /\ screen' = screen)
        /\ (pc = "loop" /\ pc' # "done") => (pc' \in {"compute", "render"}
                                              /\ prev' = Now))]_vars

\* About to print a second or later frame of a grid that changed in the
\* call just completed.
WitnessC14 ==
    /\ pc = "render" /\ screen # <<>> /\ width >= 2 /\ height >= 2
    /\ screen = FrameOf(prev) /\ Now # prev /\ LiveSet(Now) # {}


(* ------------------------------ C15 ------------------------------------ *)

\* C15 as stated: the driver stops without an error and never stops out of
\* a next_generation call that is part-way through its compute or apply
\* pass (some iterations of the pass done, others still to come).
ClaimC15 ==
    [][(/\ pc' # "error"
        /\ (pc' = "done" /\ pc # "done") =>
              ~(pc \in {"compute", "apply"} /\ k >= 1))]_vars

\* C15 as amended: an interrupt stops the driver without an error, wherever
\* inside the loop it arrives (a next_generation call part-way through a
\* pass included); it changes nothing of the grid or the screen, and nothing
\* runs after it.
TheoremC15 ==
    [][(/\ pc' # "error"
        /\ (pc = "done") => FALSE
        /\ (pc' = "done") =>
              (/\ pc \in {"loop", "compute", "apply", "render", "sleep"}
               /\ heap' = heap /\ cells' = cells /\ k' = k
               /\ screen' = screen))]_vars

\* The driver has stopped in the middle of an apply pass: some cells are
\* committed, another still holds a staged value different from its state.
WitnessC15 ==
    /\ pc = "done" /\ k >= 1 /\ Now # prev
    /\ \E id \in DOMAIN heap :
         HasNewState(heap, id) /\ heap[id].new_state[1] # heap[id].state


(* ------------------------------ C17 ------------------------------------ *)

\* C17: whenever a next_generation call has completed and the next one has
\* not been entered, every cell's new_state equals its state.
TheoremC17 ==
    (pc \in {"render", "sleep"} \/ (pc = "loop" /\ prev # <<>>)) =>
        \A id \in DOMAIN heap : heap[id].new_state = <<heap[id].state>>

\* Back at the top of the loop after a call that changed the grid.
WitnessC17 ==
    /\ pc = "loop" /\ prev # <<>> /\ NCells >= 4 /\ Now # prev
    /\ \E id \in DOMAIN heap : heap[id].state


(* ------------------------------ C16 ------------------------------------ *)

\* The successor of configuration conf over the neighbors dicts: a function
\* of the alive values alone.
SuccessorOf(conf) ==
    [id \in DOMAIN heap |->
        LET n == Cardinality({d \in DirNames :
                     /\ heap[id].neighbors[d] # None
                     /\ conf[heap[id].neighbors[d]]})
        IN  IF conf[id] THEN n \in {2, 3} ELSE n = 3]

\* C16: whatever new_state values (never set, left over, or set to anything
\* from outside) the cells hold when next_generation is entered, the alive
\* values after the call are SuccessorOf the alive values at entry; two
\* grids with the same alive values therefore agree after every call.
TheoremC16 == (pc = "render") => (Now = SuccessorOf(prev))

\* The first call is running on a grid in which a cell not yet visited by
\* the compute pass holds a new_state, set from outside, that differs from
\* its state, while another cell has never had one.
WitnessC16 ==
    /\ pc = "compute" /\ k >= 1 /\ screen = <<>>
    /\ \E id \in DOMAIN heap \ StagedInCall :
         HasNewState(heap, id) /\ heap[id].new_state[1] # heap[id].state
    /\ \E id \in DOMAIN heap \ StagedInCall : ~HasNewState(heap, id)


(* ------------------------------ C18 ------------------------------------ *)

\* The larger of width and height.
LongSide == IF width >= height THEN width ELSE height

\* n / 2 rounded up.
CeilHalf(n) == (n + 1) \div 2

\* C18: in a grid with width = 1 or height = 1, no step makes a dead cell
\* alive (so the set of live cells never grows), and once
\* ceil(max(width, height) / 2) next_generation calls have returned every
\* cell is dead, and stays dead.
TheoremC18 ==
    [][(Constructed /\ (width = 1 \/ height = 1)) =>
        (/\ \A id \in DOMAIN heap : heap'[id].state => heap[id].state
         /\ (calls' >= CeilHalf(LongSide)) => AllDead')]_vars

\* The third call on the 1x5 grid has just returned and killed the last
\* live cell: the bound ceil(5/2) = 3 is reached exactly.
WitnessC18 ==
    /\ pc = "render" /\ width = 1 /\ height = 5 /\ calls = 3
    /\ LiveSet(prev) # {} /\ AllDead

====
